---- MODULE Spec2Model ----
(***************************************************************************)
(* A model of src/src/main.rs: the App state (counter, should_quit, items, *)
(* selected_index), its key dispatch, the draw/read loop of run, the       *)
(* acquisition and restoration of the terminal in main, and the values     *)
(* render_list and render_info hand to the widgets.                        *)
(***************************************************************************)
EXTENDS Integers, Sequences, FiniteSets, TLC

VARIABLES
    counter,          \* App.counter: u8
    should_quit,      \* App.should_quit
    items,            \* App.items: Vec<String>
    selected_index,   \* App.selected_index: usize
    pc,               \* position in main/run
    mode,             \* terminal mode: "original" or "interactive"
    acquires,         \* number of times the terminal was switched to interactive mode
    restores,         \* number of ratatui::restore() calls made so far
    result,           \* the Result run returned: "none", "ok", "err"
    exit_code,        \* process exit code, -1 while running
    panic,            \* "none", or the message of the panic that was raised
    ev,               \* the event returned by the last event::read()
    pre,              \* history: selected_index, items.len() and counter before the last dispatch
    frame,            \* what the draw of the current loop iteration handed to the widgets
    appended,         \* history: the labels pushed by 'a', in order
    removed           \* history: TRUE once 'd' has removed an item

vars == <<counter, should_quit, items, selected_index, pc, mode, acquires,
          restores, result, exit_code, panic, ev, pre, frame, appended, removed>>

app == <<counter, should_quit, items, selected_index>>

(***************************************************************************)
(* Bounds of the model.                                                    *)
(***************************************************************************)
\* 'a' is pressed at most MaxAdds times in a run.
MaxAdds == 2
\* In the event loop Space is pressed only while counter < MaxCounter.
MaxCounter == 1
\* Down on an empty list wraps only while selected_index < MaxSel.
MaxSel == 2
\* With key presses only, Space is pressed only while counter < MaxTicks.
MaxTicks == 3

\* u8::MAX, the largest value of App.counter.
U8_MAX == 255

(***************************************************************************)
(* Events                                                                  *)
(***************************************************************************)
KeyCodes == {"q", "Esc", "Space", "Up", "Down", "a", "d", "Enter", "Q", "Left"}
KeyKinds == {"Press", "Release", "Repeat"}
KeyEvents == [type : {"Key"}, code : KeyCodes, kind : KeyKinds]
OtherEvents == [type : {"Resize", "Mouse", "Paste"}, code : {"-"}, kind : {"-"}]
Events == KeyEvents \cup OtherEvents
NoEvent == [type |-> "None", code |-> "-", kind |-> "-"]

(***************************************************************************)
(* format!("{}", n) for an unsigned integer: its decimal digits.           *)
(***************************************************************************)
Digit == <<"0", "1", "2", "3", "4", "5", "6", "7", "8", "9">>

RECURSIVE FormatUnsigned(_)
FormatUnsigned(n) ==
    IF n < 10 THEN Digit[n + 1]
    ELSE FormatUnsigned(n \div 10) \o Digit[(n % 10) + 1]

(***************************************************************************)
(* App                                                                     *)
(***************************************************************************)
InitialItems == <<"Item 1", "Item 2", "Item 3", "Item 4", "Item 5">>

\* a variant of Tick: wrapping_add(1) instead of saturating_add(1)
TickWrapping(c) == (c + 1) % (U8_MAX + 1)

\* self.counter.saturating_add(1)
Tick(c) == IF c + 1 > U8_MAX THEN U8_MAX ELSE c + 1

\* KeyCode::Up
UpIndex(sel) == IF sel > 0 THEN sel - 1 ELSE sel

\* KeyCode::Down: `self.items.len() - 1` is a usize subtraction. With len = 0 it
\* overflows: a panic in a build with overflow checks, usize::MAX in one without.
DownOverflows(len) == len = 0

\* selected_index < items.len() - 1, the subtraction wrapping: for len = 0 the
\* bound is usize::MAX, which no selected_index of the model reaches.
BelowLast(sel, len) == IF len = 0 THEN TRUE ELSE sel < len - 1

\* a variant of DownIndex: the bound items.len() instead of items.len() - 1
DownIndexOffByOne(sel, len) == IF sel < len THEN sel + 1 ELSE sel

DownIndex(sel, len) == IF BelowLast(sel, len) THEN sel + 1 ELSE sel

\* a variant of NewLabel: the count left out of the label
NewLabelUnnumbered(len) == "New Item"

\* format!("New Item {}", self.items.len() + 1)
NewLabel(len) == "New Item " \o FormatUnsigned(len + 1)

\* a variant of Push: insert(0, label) instead of push(label)
PushFront(s, label) == <<label>> \o s

\* self.items.push(label)
Push(s, label) == Append(s, label)

\* Vec::remove(index), index 0-based: panics when index >= len.
RemovePanics(index, len) == index >= len

RemoveAt(s, index) == SubSeq(s, 1, index) \o SubSeq(s, index + 2, Len(s))

\* a variant of AfterRemoveIndex: the selection steps back after every removal
AfterRemoveAlwaysBack(sel, len) == IF sel > 0 THEN sel - 1 ELSE sel

\* the adjustment after the removal; len is the length after it.
AfterRemoveIndex(sel, len) == IF sel >= len /\ sel > 0 THEN sel - 1 ELSE sel

\* a variant of IsQuitKey: the quit key matched without regard to case
IsQuitKeyAnyCase(code) == code \in {"q", "Q", "Esc"}

\* a variant of IsQuitKey: Space quits as well
IsQuitKeyOrSpace(code) == code \in {"q", "Esc", "Space"}

\* KeyCode::Char('q') | KeyCode::Esc
IsQuitKey(code) == code \in {"q", "Esc"}

\* App::handle_key: the match on key.code. A panic leaves the state as it was.
HandleKey(code) ==
    /\ pre' = [sel |-> selected_index, len |-> Len(items), counter |-> counter]
    /\ CASE IsQuitKey(code) ->
              /\ should_quit' = TRUE
              /\ UNCHANGED <<counter, items, selected_index, panic, appended, removed>>
         [] code = "Space" ->
              /\ counter' = Tick(counter)
              /\ UNCHANGED <<should_quit, items, selected_index, panic, appended, removed>>
         [] code = "Up" ->
              /\ selected_index' = UpIndex(selected_index)
              /\ UNCHANGED <<counter, should_quit, items, panic, appended, removed>>
         [] code = "Down" ->
              \/ /\ DownOverflows(Len(items))
                 /\ panic' = "attempt to subtract with overflow"
                 /\ UNCHANGED <<counter, should_quit, items, selected_index,
                                appended, removed>>
              \/ /\ DownOverflows(Len(items)) => selected_index < MaxSel
                 /\ selected_index' = DownIndex(selected_index, Len(items))
                 /\ UNCHANGED <<counter, should_quit, items, panic, appended, removed>>
         [] code = "a" ->
              /\ items' = Push(items, NewLabel(Len(items)))
              /\ appended' = Append(appended, NewLabel(Len(items)))
              /\ UNCHANGED <<counter, should_quit, selected_index, panic, removed>>
         [] code = "d" ->
              IF items # <<>>
              THEN IF RemovePanics(selected_index, Len(items))
                   THEN /\ panic' = "removal index should be < len"
                        /\ UNCHANGED <<counter, should_quit, items, selected_index,
                                       appended, removed>>
                   ELSE /\ items' = RemoveAt(items, selected_index)
                        /\ selected_index' = AfterRemoveIndex(selected_index, Len(items'))
                        /\ removed' = TRUE
                        /\ UNCHANGED <<counter, should_quit, panic, appended>>
              ELSE UNCHANGED <<counter, should_quit, items, selected_index, panic,
                               appended, removed>>
         [] OTHER ->
              UNCHANGED <<counter, should_quit, items, selected_index, panic,
                          appended, removed>>

(***************************************************************************)
(* IEEE-754 binary64 arithmetic on positive values, as render_info uses    *)
(* it. A value is zero or [m, e]: m the 53 significand bits, most          *)
(* significant first (m[1] = 1), e the exponent of m[1]. Every operation   *)
(* rounds the exact result to nearest, ties to even.                       *)
(***************************************************************************)
\* the significand of an f64 has 53 bits
MantissaBits == 53
\* u16::MAX, where `as u16` saturates
U16_MAX == 65535

F64Zero == [m |-> <<>>, e |-> 0]

Front(s) == SubSeq(s, 1, Len(s) - 1)
Last(s) == s[Len(s)]

RECURSIVE Zeros(_)
Zeros(n) ==
    IF n <= 0 THEN <<>>
    ELSE IF n = 1 THEN <<0>>
    ELSE Zeros(n \div 2) \o Zeros(n - (n \div 2))

RECURSIVE NatBits(_)
NatBits(n) == IF n = 0 THEN <<>> ELSE NatBits(n \div 2) \o <<n % 2>>

RECURSIVE BitsNat(_)
BitsNat(bits) == IF bits = <<>> THEN 0 ELSE 2 * BitsNat(Front(bits)) + Last(bits)

\* bits + 1: the last 0 becomes 1 and the 1s after it 0; all 1s carry out.
Increment(bits) ==
    LET zeros == {i \in 1..Len(bits) : bits[i] = 0}
    IN  IF zeros = {} THEN <<1>> \o Zeros(Len(bits))
        ELSE LET j == CHOOSE i \in zeros : \A k \in zeros : k <= i
             IN  SubSeq(bits, 1, j - 1) \o <<1>> \o Zeros(Len(bits) - j)

\* bits (first bit 1, exponent e) and whether non-zero digits follow them,
\* rounded to MantissaBits bits.
RoundNearestEven(bits, sticky, e) ==
    IF Len(bits) <= MantissaBits
    THEN [m |-> bits \o Zeros(MantissaBits - Len(bits)), e |-> e]
    ELSE LET keep == SubSeq(bits, 1, MantissaBits)
             guard == bits[MantissaBits + 1]
             rest == sticky \/ \E i \in (MantissaBits + 2)..Len(bits) : bits[i] = 1
             up == guard = 1 /\ (rest \/ keep[MantissaBits] = 1)
             inc == Increment(keep)
         IN  IF ~up THEN [m |-> keep, e |-> e]
             ELSE IF Len(inc) > MantissaBits
                  THEN [m |-> SubSeq(inc, 1, MantissaBits), e |-> e + 1]
                  ELSE [m |-> inc, e |-> e]

\* n / d scaled by powers of two until 1 <= n / d < 2; e is the exponent taken out.
RECURSIVE Scale(_, _, _)
Scale(n, d, e) ==
    IF n < d THEN Scale(2 * n, d, e - 1)
    ELSE IF n >= 2 * d THEN Scale(n, 2 * d, e + 1)
    ELSE [n |-> n, d |-> d, e |-> e]

\* the first k binary digits of n / d (1 <= n / d < 2, or n < d after the first
\* digit), and the remainder left: long division, the second half of the digits
\* continuing from the remainder of the first.
RECURSIVE QuotBits(_, _, _)
QuotBits(n, d, k) ==
    IF k = 0 \/ n < 0 THEN [bits |-> <<>>, rem |-> n]
    ELSE IF k = 1
    THEN IF n >= d THEN [bits |-> <<1>>, rem |-> 2 * (n - d)]
                   ELSE [bits |-> <<0>>, rem |-> 2 * n]
    ELSE LET a == QuotBits(n, d, k \div 2)
             b == QuotBits(a.rem, d, k - (k \div 2))
         IN  [bits |-> a.bits \o b.bits, rem |-> b.rem]

\* (a as f64) / (b as f64) for naturals a, b that an f64 holds exactly, b > 0.
F64DivNat(a, b) ==
    IF a = 0 THEN F64Zero
    ELSE LET s == Scale(a, b, 0)
             q == QuotBits(s.n, s.d, MantissaBits + 1)
         IN  RoundNearestEven(q.bits, q.rem # 0, s.e)

\* bits * k + carry: the low Len(bits) bits of it, and the carry out of them.
\* The low half is multiplied first and its carry goes into the high half.
RECURSIVE MulPart(_, _, _)
MulPart(bits, k, carry) ==
    IF bits = <<>> \/ carry < 0 THEN [bits |-> <<>>, carry |-> carry]
    ELSE IF Len(bits) = 1
    THEN [bits |-> <<(bits[1] * k + carry) % 2>>, carry |-> (bits[1] * k + carry) \div 2]
    ELSE LET h == Len(bits) \div 2
             lo == MulPart(SubSeq(bits, h + 1, Len(bits)), k, carry)
             hi == MulPart(SubSeq(bits, 1, h), k, lo.carry)
         IN  [bits |-> hi.bits \o lo.bits, carry |-> hi.carry]

\* bits * k, as bits without leading zeros (bits[1] = 1).
MulBits(bits, k) ==
    LET p == MulPart(bits, k, 0) IN NatBits(p.carry) \o p.bits

\* x * (k as f64) for a natural k > 0 that an f64 holds exactly.
F64MulNat(x, k) ==
    IF x = F64Zero THEN F64Zero
    ELSE LET p == MulBits(x.m, k)
         IN  RoundNearestEven(p, FALSE, x.e + (Len(p) - MantissaBits))

\* x as u16: truncation toward zero, saturating.
F64ToU16(x) ==
    IF x = F64Zero \/ x.e < 0 THEN 0
    ELSE IF x.e >= 16 THEN U16_MAX
    ELSE BitsNat(SubSeq(x.m, 1, x.e + 1))

(***************************************************************************)
(* Rendering                                                               *)
(***************************************************************************)
\* let progress = app.counter as f64 / 100.0;
Progress(c) == F64DivNat(c, 100)

\* (progress * 100.0) as u16
ProgressPercent(c) == F64ToU16(F64MulNat(Progress(c), 100))

PercentTable == [c \in 0..U8_MAX |-> ProgressPercent(c)]

\* the argument of Gauge::percent
GaugePercent(c) == PercentTable[c]

\* the argument of Gauge::label
GaugeLabel(c) == FormatUnsigned(PercentTable[c]) \o "%"

\* Gauge::percent asserts percent <= 100.
GaugePanics(percent) == percent > 100

\* render_list: one ListItem per item, the selected one marked.
RenderList(its, sel) ==
    [i \in 1..Len(its) |->
        IF i - 1 = sel
        THEN [marker |-> "> ", text |-> its[i], fg |-> "Yellow"]
        ELSE [marker |-> "  ", text |-> its[i], fg |-> "Reset"]]

\* render_info: the three lines of the Info paragraph.
InfoLines(c, sel, len) ==
    << "Counter: " \o FormatUnsigned(c),
       "Selected: " \o FormatUnsigned(sel),
       "Items: " \o FormatUnsigned(len) >>

\* Nothing rendered yet in this loop iteration.
NoFrame == [state |-> "none", rows |-> <<>>, info |-> <<>>, percent |-> 0, label |-> ""]

\* render: render_list, then render_info up to the Gauge. Gauge::percent is
\* called before the argument of Gauge::label is built, so when it panics the
\* frame has no label and nothing reaches the screen.
Render ==
    IF GaugePanics(GaugePercent(counter))
    THEN [state |-> "panicked",
          rows |-> RenderList(items, selected_index),
          info |-> InfoLines(counter, selected_index, Len(items)),
          percent |-> GaugePercent(counter),
          label |-> ""]
    ELSE [state |-> "drawn",
          rows |-> RenderList(items, selected_index),
          info |-> InfoLines(counter, selected_index, Len(items)),
          percent |-> GaugePercent(counter),
          label |-> GaugeLabel(counter)]

(***************************************************************************)
(* main and run                                                            *)
(***************************************************************************)
NoPre == [sel |-> 0, len |-> 0, counter |-> 0]

\* a variant of HookRestores: a terminal set up without the panic hook
HookAbsent == FALSE

\* ratatui::init installs a panic hook that calls ratatui::restore.
HookRestores == TRUE

\* ratatui::restore(): the terminal mode after it.
RestoredMode(m) == "original"

\* A panic after ratatui::init: the hook runs, then the process ends with code 101.
PanicExit ==
    /\ mode' = IF HookRestores THEN RestoredMode(mode) ELSE mode
    /\ restores' = IF HookRestores THEN restores + 1 ELSE restores
    /\ exit_code' = 101
    /\ pc' = "exit"
    /\ UNCHANGED result

\* the key presses the bounds of the model allow in the current state
Offered(e) ==
    /\ e.code = "Space" => counter < MaxCounter
    /\ e.code = "a" => Len(appended) < MaxAdds

Init ==
    /\ counter = 0
    /\ should_quit = FALSE
    /\ items = InitialItems
    /\ selected_index = 0
    /\ pc = "install"
    /\ mode = "original"
    /\ acquires = 0
    /\ restores = 0
    /\ result = "none"
    /\ exit_code = -1
    /\ panic = "none"
    /\ ev = NoEvent
    /\ pre = NoPre
    /\ frame = NoFrame
    /\ appended = <<>>
    /\ removed = FALSE

\* color_eyre::install()?
Install ==
    /\ pc = "install"
    /\ \/ pc' = "init" /\ UNCHANGED <<result, exit_code>>
       \/ pc' = "exit" /\ result' = "err" /\ exit_code' = 1
    /\ UNCHANGED <<app, mode, acquires, restores, panic, ev, pre, frame,
                   appended, removed>>

\* let terminal = ratatui::init(); run(terminal) up to the loop: App::new()
TermInit ==
    /\ pc = "init"
    /\ \/ /\ mode' = "interactive"
          /\ acquires' = acquires + 1
          /\ counter' = 0
          /\ should_quit' = FALSE
          /\ items' = InitialItems
          /\ selected_index' = 0
          /\ pc' = "draw"
          /\ UNCHANGED <<restores, result, exit_code, panic>>
       \/ /\ panic' = "failed to initialize terminal"
          /\ PanicExit
          /\ UNCHANGED <<app, acquires>>
    /\ UNCHANGED <<ev, pre, frame, appended, removed>>

\* terminal.draw(|frame| render(&app, frame))?
Draw ==
    /\ pc = "draw"
    /\ IF Render.state = "panicked"
       THEN /\ panic' = "Percentage should be between 0 and 100 inclusively."
            /\ PanicExit
            /\ frame' = Render
       ELSE \/ /\ frame' = Render
               /\ pc' = "read"
               /\ UNCHANGED <<mode, restores, result, exit_code, panic>>
            \/ /\ result' = "err"
               /\ pc' = "restore"
               /\ UNCHANGED <<mode, restores, exit_code, panic, frame>>
    /\ UNCHANGED <<app, acquires, ev, pre, appended, removed>>

\* event::read()? returned Err
ReadError ==
    /\ pc = "read"
    /\ result' = "err"
    /\ pc' = "restore"
    /\ UNCHANGED <<app, mode, acquires, restores, exit_code, panic, ev, pre,
                   frame, appended, removed>>

\* if let Event::Key(key) = event::read()? { app.handle_key(key); }
ReadDispatch(e) ==
    /\ pc = "read"
    /\ ev' = e
    /\ IF e.type = "Key"
       THEN HandleKey(e.code)
       ELSE UNCHANGED <<app, panic, pre, appended, removed>>
    /\ IF panic' # "none"
       THEN PanicExit
       ELSE pc' = "check" /\ UNCHANGED <<mode, restores, result, exit_code>>
    /\ UNCHANGED <<acquires, frame>>

\* event::read() returning one of the events offered
ReadEvent(e) == Offered(e) /\ ReadDispatch(e)

\* a variant of CheckQuit: the loop that goes on whatever should_quit says
CheckQuitIgnoresFlag ==
    /\ pc = "check"
    /\ pc' = "draw"
    /\ ev' = NoEvent
    /\ pre' = NoPre
    /\ frame' = NoFrame
    /\ UNCHANGED <<app, mode, acquires, restores, result, exit_code, panic,
                   appended, removed>>

\* a variant of CheckQuit: the loop that reads again without drawing
CheckQuitSkipsDraw ==
    /\ pc = "check"
    /\ IF should_quit
       THEN pc' = "restore" /\ result' = "ok"
       ELSE pc' = "read" /\ UNCHANGED result
    /\ ev' = NoEvent
    /\ pre' = NoPre
    /\ frame' = NoFrame
    /\ UNCHANGED <<app, mode, acquires, restores, exit_code, panic, appended, removed>>

\* if app.should_quit { break; }  ...  Ok(())
CheckQuit ==
    /\ pc = "check"
    /\ IF should_quit
       THEN pc' = "restore" /\ result' = "ok"
       ELSE pc' = "draw" /\ UNCHANGED result
    /\ ev' = NoEvent
    /\ pre' = NoPre
    /\ frame' = NoFrame
    /\ UNCHANGED <<app, mode, acquires, restores, exit_code, panic, appended, removed>>

\* a variant of Restore: main that drops the result of run and returns Ok(())
RestoreDropsResult ==
    /\ pc = "restore"
    /\ mode' = RestoredMode(mode)
    /\ restores' = restores + 1
    /\ exit_code' = 0
    /\ pc' = "exit"
    /\ UNCHANGED <<app, acquires, result, panic, ev, pre, frame, appended, removed>>

\* ratatui::restore(); result
Restore ==
    /\ pc = "restore"
    /\ mode' = RestoredMode(mode)
    /\ restores' = restores + 1
    /\ exit_code' = IF result = "ok" THEN 0 ELSE 1
    /\ pc' = "exit"
    /\ UNCHANGED <<app, acquires, result, panic, ev, pre, frame, appended, removed>>

Next ==
    \/ Install
    \/ TermInit
    \/ Draw
    \/ ReadError
    \/ \E e \in Events : ReadEvent(e)
    \/ CheckQuit
    \/ Restore

Spec == Init /\ [][Next]_vars

(***************************************************************************)
(* The same program with a user who only presses keys: every event read is *)
(* a key press, and Space is pressed up to MaxTicks times.                 *)
(***************************************************************************)
PressEvents == {e \in KeyEvents : e.kind = "Press"}

OfferedPress(e) ==
    /\ e.code = "Space" => counter < MaxTicks
    /\ e.code = "a" => Len(appended) < MaxAdds

\* event::read() returning a key press
ReadPress(e) == OfferedPress(e) /\ ReadDispatch(e)

NextPresses ==
    \/ Install
    \/ TermInit
    \/ Draw
    \/ ReadError
    \/ \E e \in PressEvents : ReadPress(e)
    \/ CheckQuit
    \/ Restore

SpecPresses == Init /\ [][NextPresses]_vars

(***************************************************************************)
(* The App driven directly: Space presses dispatched to handle_key, and    *)
(* render called on the state at any point, over the whole range of the    *)
(* counter.                                                                *)
(***************************************************************************)
SpaceKey == [type |-> "Key", code |-> "Space", kind |-> "Press"]

InitTick ==
    /\ counter = 0
    /\ should_quit = FALSE
    /\ items = InitialItems
    /\ selected_index = 0
    /\ pc = "app"
    /\ mode = "original"
    /\ acquires = 0
    /\ restores = 0
    /\ result = "none"
    /\ exit_code = -1
    /\ panic = "none"
    /\ ev = NoEvent
    /\ pre = NoPre
    /\ frame = NoFrame
    /\ appended = <<>>
    /\ removed = FALSE

\* app.handle_key(KeyCode::Char(' '))
PressSpace ==
    /\ pc = "app"
    /\ panic = "none"
    /\ ev' = SpaceKey
    /\ HandleKey("Space")
    /\ UNCHANGED <<pc, mode, acquires, restores, result, exit_code, frame>>

\* render(&app, frame)
RenderFrame ==
    /\ pc = "app"
    /\ panic = "none"
    /\ frame' = Render
    /\ panic' = IF Render.state = "panicked"
                THEN "Percentage should be between 0 and 100 inclusively."
                ELSE panic
    /\ UNCHANGED <<app, pc, mode, acquires, restores, result, exit_code, ev, pre,
                   appended, removed>>

NextTick == PressSpace \/ RenderFrame

SpecTick == InitTick /\ [][NextTick]_vars

(***************************************************************************)
(* Properties                                                              *)
(***************************************************************************)
KeyDispatched(code) == ev.type = "Key" /\ ev.code = code

\* C1: after every dispatch, if items is non-empty then
\* 0 <= selected_index < items.len().
C1_SelectedIndexInRange ==
    items # <<>> => (0 <= selected_index /\ selected_index < Len(items))

\* C2: handle_key is total: no dispatch ends in a fault, neither the
\* subtraction items.len() - 1 of Down nor the removal of 'd'.
C2_HandleKeyNeverFaults ==
    panic \notin {"attempt to subtract with overflow", "removal index should be < len"}

ClampTo100(c) == IF c > 100 THEN 100 ELSE c

\* C3: a frame rendered from the current counter hands min(counter, 100) to the
\* gauge as its percentage and shows it in the label.
C3_GaugeShowsMinCounter100 ==
    (frame.state # "none" /\ frame.info[1] = "Counter: " \o FormatUnsigned(counter)) =>
        /\ frame.percent = ClampTo100(counter)
        /\ frame.label = FormatUnsigned(ClampTo100(counter)) \o "%"

\* C4: once the terminal has been switched to interactive mode it stays so, with
\* no restore, until the process exits, and at exit (normal quit, an error of
\* draw or read, a panic in the loop) it has been restored exactly once.
C4_TerminalRestoredOnceOnExit ==
    /\ acquires <= 1
    /\ (acquires > 0 /\ pc # "exit") => (mode = "interactive" /\ restores = 0)
    /\ (acquires > 0 /\ pc = "exit") => (mode = "original" /\ restores = 1)

\* C4 witness: the process has exited on a panic raised by a key dispatch in the
\* loop, with the terminal restored once.
C4_Witness ==
    /\ pc = "exit"
    /\ acquires = 1
    /\ exit_code = 101
    /\ panic = "removal index should be < len"
    /\ mode = "original"
    /\ restores = 1

\* C5: counter stays within 0..255 and never decreases; a Space press adds
\* exactly 1 below 255 and leaves 255 at 255.
C5_CounterSaturates ==
    /\ counter \in 0..255
    /\ counter >= pre.counter
    /\ KeyDispatched("Space") =>
           counter = (IF pre.counter < 255 THEN pre.counter + 1 ELSE 255)

\* C5 witness: Space was pressed with counter at 255 and left it there.
C5_Witness == KeyDispatched("Space") /\ pre.counter = 255 /\ counter = 255

\* 'a' has just been dispatched: its label is the last of items and of appended.
JustAppended == pc = "check" /\ KeyDispatched("a")

NewLabelIsFresh ==
    /\ \A i \in 1..(Len(items) - 1) : items[i] # items[Len(items)]
    /\ \A j \in 1..(Len(appended) - 1) : appended[j] # appended[Len(appended)]

\* C6 as stated: the label 'a' appends differs from every label in items and
\* from every label appended earlier.
C6_LabelAlwaysFresh == JustAppended => NewLabelIsFresh

\* C6 amended: the label 'a' appends differs from every label in items and from
\* every label appended earlier, as long as 'd' has removed no item before.
C6_LabelFreshWithoutRemoval == (JustAppended /\ ~removed) => NewLabelIsFresh

\* C6 witness: a second 'a' with nothing removed, appending "New Item 7".
C6_Witness ==
    /\ JustAppended
    /\ ~removed
    /\ Len(appended) = 2
    /\ items[Len(items)] = "New Item 7"

\* C7: 'd' on a non-empty list removes exactly the item at selected_index and
\* lowers selected_index by 1 only if it was the last index and > 0; 'd' on an
\* empty list changes nothing.
C7_DeleteRemovesSelected ==
    [][ (pc = "read" /\ ev'.type = "Key" /\ ev'.code = "d") =>
          IF items # <<>>
          THEN /\ Len(items') = Len(items) - 1
               /\ \A j \in 1..Len(items') :
                      items'[j] = IF j <= selected_index THEN items[j] ELSE items[j + 1]
               /\ selected_index' =
                      IF selected_index = Len(items) - 1 /\ selected_index > 0
                      THEN selected_index - 1 ELSE selected_index
          ELSE UNCHANGED <<counter, should_quit, items, selected_index>> ]_vars

\* C8: 'a' lengthens items by exactly 1, the new item last and the others where
\* they were, and leaves selected_index unchanged.
C8_AppendKeepsRest ==
    [][ (pc = "read" /\ ev'.type = "Key" /\ ev'.code = "a") =>
          /\ Len(items') = Len(items) + 1
          /\ \A j \in 1..Len(items) : items'[j] = items[j]
          /\ items'[Len(items')] = appended'[Len(appended')]
          /\ selected_index' = selected_index ]_vars

\* C8 witness: 'a' was dispatched with an item other than the first selected.
C8_Witness ==
    /\ JustAppended
    /\ pre.sel > 0
    /\ Len(items) = pre.len + 1
    /\ selected_index = pre.sel

\* C9: on a non-empty list Up decrements selected_index by 1 above 0 and is a
\* no-op at 0; Down increments it by 1 below items.len() - 1 and is a no-op at
\* items.len() - 1; neither faults nor changes the list.
C9_NavigationClamps ==
    pre.len > 0 =>
        /\ (KeyDispatched("Up") /\ pre.sel > 0) => selected_index = pre.sel - 1
        /\ (KeyDispatched("Up") /\ pre.sel = 0) => selected_index = 0
        /\ (KeyDispatched("Down") /\ pre.sel < pre.len - 1) => selected_index = pre.sel + 1
        /\ (KeyDispatched("Down") /\ pre.sel = pre.len - 1) => selected_index = pre.sel
        /\ (KeyDispatched("Up") \/ KeyDispatched("Down")) =>
               (Len(items) = pre.len /\ panic = "none")

\* C9 witness: Down was dispatched at the last index and left it there.
C9_Witness ==
    /\ pc = "check"
    /\ KeyDispatched("Down")
    /\ pre.len > 1
    /\ pre.sel = pre.len - 1
    /\ selected_index = pre.sel

\* C10: an event that is not a key press (resize, mouse, paste, or a key event
\* of kind release or repeat) leaves counter, should_quit, items and
\* selected_index unchanged.
C10_OnlyPressesDispatched ==
    [][ (pc = "read" /\ ev' # ev /\ ~(ev'.type = "Key" /\ ev'.kind = "Press")) =>
          UNCHANGED <<counter, should_quit, items, selected_index>> ]_vars

RecognizedKeys == {"q", "Esc", "Space", "Up", "Down", "a", "d"}

\* C11: should_quit is never reset once set; from the dispatch of 'q' or Esc on
\* the loop is past its last draw and read, no fault occurs, run returns Ok and
\* the process exits with code 0; the loop returns Ok, and the process exits
\* with code 0, only with should_quit set.
C11_QuitStopsLoop ==
    /\ [](should_quit =>
            /\ pc \in {"check", "restore", "exit"}
            /\ panic = "none"
            /\ result \in {"none", "ok"}
            /\ pc = "check" => (KeyDispatched("q") \/ KeyDispatched("Esc"))
            /\ pc \in {"restore", "exit"} => result = "ok"
            /\ pc = "exit" => exit_code = 0)
    /\ []((result = "ok" \/ exit_code = 0) => should_quit)
    /\ [][ /\ should_quit => (should_quit' /\ UNCHANGED <<counter, items, selected_index>>)
           /\ (pc = "read" /\ ev'.type = "Key" /\ ev'.code \in {"q", "Esc"}) =>
                  (should_quit' /\ pc' = "check") ]_vars

\* C11 witness: 'q' or Esc was dispatched and the process has exited with code 0.
C11_Witness ==
    /\ pc = "exit"
    /\ should_quit
    /\ result = "ok"
    /\ exit_code = 0
    /\ restores = 1

\* C12: the dispatch of a key other than q, Esc, Space, Up, Down, a, d leaves
\* counter, should_quit, items and selected_index unchanged and raises no fault.
C12_OtherKeysChangeNothing ==
    [][ (pc = "read" /\ ev'.type = "Key" /\ ev'.code \notin RecognizedKeys) =>
          (UNCHANGED <<counter, should_quit, items, selected_index>> /\ panic' = "none") ]_vars

\* C12 witness: an uppercase 'Q' was dispatched on a changed App and the loop
\* goes on.
C12_Witness ==
    /\ pc = "check"
    /\ KeyDispatched("Q")
    /\ ~should_quit
    /\ counter = 1
    /\ Len(items) = 4
    /\ selected_index = 3

\* C13: once draw or read has failed, nothing is drawn, read or dispatched any
\* more, the error stays the result of run, and the process exits with a
\* non-zero code after the terminal it had acquired has been restored.
C13_IoErrorSurfaced ==
    /\ [](result = "err" =>
            /\ pc \in {"restore", "exit"}
            /\ pc = "exit" => (exit_code = 1 /\ mode = "original" /\ restores = acquires))
    /\ [][ /\ (pc \in {"draw", "read"} /\ result' = "err") => pc' = "restore"
           /\ result = "err" => (result' = "err" /\ UNCHANGED <<app, ev, frame>>) ]_vars

\* C13 witness: a read failed after a draw, and the process has exited with
\* code 1 and the terminal restored.
C13_Witness ==
    /\ pc = "exit"
    /\ result = "err"
    /\ frame.state = "drawn"
    /\ acquires = 1
    /\ restores = 1
    /\ mode = "original"
    /\ exit_code = 1

MarkedRows(rows) == {i \in 1..Len(rows) : rows[i].marker = "> "}

\* C14: the list drawn before a read has exactly items.len() rows, in the order
\* of items; when items is non-empty exactly one row, the one at
\* selected_index, carries the "> " marker; when items is empty there is no row.
C14_ListRenderedFromState ==
    (pc = "read" /\ frame.state = "drawn") =>
        /\ Len(frame.rows) = Len(items)
        /\ \A i \in 1..Len(items) : frame.rows[i].text = items[i]
        /\ items # <<>> => MarkedRows(frame.rows) = {selected_index + 1}
        /\ items = <<>> => frame.rows = <<>>

ItemsAfterDelete == <<"Item 1", "Item 2", "Item 4", "Item 5">>

ItemsAfterAdd == <<"Item 1", "Item 2", "Item 4", "Item 5", "New Item 5">>

\* the press of key in the App state from
Pressed(key, from) ==
    /\ pc = "read"
    /\ ev' = [type |-> "Key", code |-> key, kind |-> "Press"]
    /\ app = from

\* the dispatch ended without a fault in the App state to
Gives(to) == app' = to /\ panic' = "none" /\ pc' = "check"

\* C15: the loop starts from 5 items, selected_index 0, counter 0; there Down,
\* Down gives selected_index 2; 'd' gives the 4 items without "Item 3" and
\* selected_index 2 at "Item 4"; 'a' appends "New Item 5" as the fifth item;
\* three Space presses give counter 3; 'q' sets should_quit and the loop exits
\* with Ok.
C15_ScenarioStepByStep ==
    [][ /\ (pc = "init" /\ pc' = "draw") => app' = <<0, FALSE, InitialItems, 0>>
        /\ Pressed("Down", <<0, FALSE, InitialItems, 0>>) => Gives(<<0, FALSE, InitialItems, 1>>)
        /\ Pressed("Down", <<0, FALSE, InitialItems, 1>>) => Gives(<<0, FALSE, InitialItems, 2>>)
        /\ Pressed("d", <<0, FALSE, InitialItems, 2>>) =>
               /\ Gives(<<0, FALSE, ItemsAfterDelete, 2>>)
               /\ items[selected_index + 1] = "Item 3"
               /\ items'[selected_index' + 1] = "Item 4"
        /\ Pressed("a", <<0, FALSE, ItemsAfterDelete, 2>>) => Gives(<<0, FALSE, ItemsAfterAdd, 2>>)
        /\ Pressed("Space", <<0, FALSE, ItemsAfterAdd, 2>>) => Gives(<<1, FALSE, ItemsAfterAdd, 2>>)
        /\ Pressed("Space", <<1, FALSE, ItemsAfterAdd, 2>>) => Gives(<<2, FALSE, ItemsAfterAdd, 2>>)
        /\ Pressed("Space", <<2, FALSE, ItemsAfterAdd, 2>>) => Gives(<<3, FALSE, ItemsAfterAdd, 2>>)
        /\ Pressed("q", <<3, FALSE, ItemsAfterAdd, 2>>) => Gives(<<3, TRUE, ItemsAfterAdd, 2>>)
        /\ (pc = "check" /\ app = <<3, TRUE, ItemsAfterAdd, 2>>) =>
               (pc' = "restore" /\ result' = "ok") ]_vars

\* C15 witness: the loop has exited with Ok in the last state of the scenario,
\* after one removal and the one append of "New Item 5".
C15_Witness ==
    /\ pc = "exit"
    /\ exit_code = 0
    /\ app = <<3, TRUE, ItemsAfterAdd, 2>>
    /\ appended = <<"New Item 5">>
    /\ removed

\* C16: whenever the loop is about to read, the frame on screen was drawn in
\* this iteration from the current state; the step that leads to a read is a
\* draw, the only one of its iteration, and it changes nothing of the App; a
\* dispatch that does not quit, and the start of run, lead to a draw.
C16_DrawBeforeEveryRead ==
    /\ [](pc = "read" => (frame.state = "drawn" /\ frame = Render))
    /\ [](pc = "draw" => frame = NoFrame)
    /\ [][ /\ pc' = "read" =>
                  (pc = "draw" /\ frame = NoFrame /\ frame' = Render /\ UNCHANGED app)
           /\ (pc = "check" /\ ~should_quit) => pc' = "draw"
           /\ (pc = "init" /\ panic' = "none") => pc' = "draw" ]_vars

\* C16 witness: the loop is about to read after dispatches that changed
\* counter, items and selected_index, and the frame shows all three.
C16_Witness ==
    /\ pc = "read"
    /\ counter = 1
    /\ Len(items) = 6
    /\ selected_index = 5
    /\ frame.info = <<"Counter: 1", "Selected: 5", "Items: 6">>
    /\ Len(frame.rows) = 6
    /\ frame.rows[6].marker = "> "

\* C17: after key dispatches that ended without a fault, items being empty
\* implies selected_index = 0.
C17_EmptyImpliesIndexZero ==
    (panic = "none" /\ items = <<>>) => selected_index = 0

\* C18: the dispatch of Space leaves should_quit, items and selected_index
\* unchanged; Up and Down leave counter, should_quit and items unchanged; 'a'
\* leaves counter, should_quit and selected_index unchanged; 'd' leaves counter
\* and should_quit unchanged; 'q' and Esc leave counter, items and
\* selected_index unchanged; only 'q' and Esc change should_quit and only Space
\* changes counter.
C18_KeysChangeOwnFields ==
    [][ (pc = "read" /\ ev'.type = "Key") =>
          /\ ev'.code = "Space" => UNCHANGED <<should_quit, items, selected_index>>
          /\ ev'.code \in {"Up", "Down"} => UNCHANGED <<counter, should_quit, items>>
          /\ ev'.code = "a" => UNCHANGED <<counter, should_quit, selected_index>>
          /\ ev'.code = "d" => UNCHANGED <<counter, should_quit>>
          /\ ev'.code \in {"q", "Esc"} => UNCHANGED <<counter, items, selected_index>>
          /\ should_quit' # should_quit => ev'.code \in {"q", "Esc"}
          /\ counter' # counter => ev'.code = "Space" ]_vars

\* C18 witness: 'd' was dispatched at the last index and changed items and
\* selected_index, with counter and should_quit as they were.
C18_Witness ==
    /\ pc = "check"
    /\ KeyDispatched("d")
    /\ pre.sel > 0
    /\ pre.sel = pre.len - 1
    /\ Len(items) = pre.len - 1
    /\ selected_index = pre.sel - 1
    /\ pre.counter = 1
    /\ counter = 1
    /\ ~should_quit

====
